---- MODULE Spec2Model ----
(***************************************************************************)
(* A model of the PasswordGenerator component                              *)
(* (src/src/PasswordGenerator.tsx, 561-1276).                              *)
(*                                                                         *)
(* A string is a sequence of one-character strings.                        *)
(*                                                                         *)
(* Spec is one call of generatePassword (620-683) on any options: Begin    *)
(* builds the charset and the forced first character, then every iteration *)
(* of the while loop is one of Return, Exhausted, Reject and Accept.       *)
(*                                                                         *)
(* UISpec is the mounted component: its handlers, the settings effect,     *)
(* localStorage, the clipboard writes and the setTimeout timers.  There a  *)
(* click on Generate is one step, and the values of Math.random() are a    *)
(* periodic stream.                                                        *)
(***************************************************************************)
EXTENDS Integers, Sequences, FiniteSets, TLC

VARIABLES
    options,           \* the options state of the component
    pc,                \* where the program is
    charset,           \* the locals of a generatePassword call
    password,
    usedChars,
    attempts,          \* the iterations of the while loop the call has made
    randomCalls,       \* the random number functions called so far
    passwords,         \* the passwords state: the displayed list
    batch,             \* the calls that computed the displayed list
    localStorage,
    showCookieBanner,
    lengthOutline,     \* style.outline of the length input
    lengthFocused,     \* the length input is document.activeElement
    events,            \* the number of user events so far
    copiedIndex,       \* the copiedIndex state
    copiedBy,          \* the copy whose success set copiedIndex last
    clipboard,         \* the text last written to the clipboard
    pendingWrites,     \* the clipboard writes not yet settled, oldest first
    timers,            \* the setTimeout timers not yet fired, oldest first
    consoleErrors      \* the messages of console.error

callVars == <<charset, password, usedChars, attempts>>

copyVars ==
    <<copiedIndex, copiedBy, clipboard, pendingWrites, timers, consoleErrors>>

componentVars ==
    <<passwords, batch, localStorage, showCookieBanner, lengthOutline,
      lengthFocused, events, copyVars>>

vars == <<options, pc, callVars, randomCalls, componentVars>>

(***************************************************************************)
(* Bounds of the model.                                                    *)
(***************************************************************************)
\* options.length ranges over 1..MaxLength
MaxLength == 3
\* Math.random() ranges over the fractions 0/RandDenom .. (RandDenom-1)/RandDenom
RandDenom == 2
\* the count of draw attempts saturates at MaxAttempts
MaxAttempts == 151

Rand == 0 .. (RandDenom - 1)

Lengths == 1 .. MaxLength

\* the customSymbols strings the options are drawn from
SymbolInputs ==
    { <<>>,
      <<"a", "b", "c">>,
      <<"|">> }

(***************************************************************************)
(* The string constants of generatePassword.                               *)
(***************************************************************************)
lowercase ==
    <<"a", "b", "c", "d", "e", "f", "g", "h", "i", "j", "k", "l", "m", "n",
      "o", "p", "q", "r", "s", "t", "u", "v", "w", "x", "y", "z">>

uppercase ==
    <<"A", "B", "C", "D", "E", "F", "G", "H", "I", "J", "K", "L", "M", "N",
      "O", "P", "Q", "R", "S", "T", "U", "V", "W", "X", "Y", "Z">>

numbers ==
    <<"0", "1", "2", "3", "4", "5", "6", "7", "8", "9">>

defaultSymbols ==
    <<"!", "@", "#", "$", "%", "^", "&", "*", "(", ")", "_", "+", "-", "=",
      "[", "]", "{", "}", "|", ";", ":", ",", ".", "<", ">", "?">>

\* the grave accent character (U+0060), which cannot be written in a string
GraveAccent == "U+0060"

similarChars ==
    <<"0", "O", "1", "l", "I", "|", GraveAccent>>

sequentialChars ==
    << <<"a", "b", "c">>, <<"b", "c", "d">>, <<"c", "d", "e">>,
       <<"d", "e", "f">>, <<"e", "f", "g">>, <<"f", "g", "h">>,
       <<"g", "h", "i">>, <<"h", "i", "j">>, <<"i", "j", "k">>,
       <<"j", "k", "l">>, <<"k", "l", "m">>, <<"l", "m", "n">>,
       <<"m", "n", "o">>, <<"n", "o", "p">>, <<"o", "p", "q">>,
       <<"p", "q", "r">>, <<"q", "r", "s">>, <<"r", "s", "t">>,
       <<"s", "t", "u">>, <<"t", "u", "v">>, <<"u", "v", "w">>,
       <<"v", "w", "x">>, <<"w", "x", "y">>, <<"x", "y", "z">>,
       <<"1", "2", "3">>, <<"2", "3", "4">>, <<"3", "4", "5">>,
       <<"4", "5", "6">>, <<"5", "6", "7">>, <<"6", "7", "8">>,
       <<"7", "8", "9">> >>

(***************************************************************************)
(* JavaScript string operations.                                           *)
(***************************************************************************)
\* the characters of a string, as a set
Range(s) == { s[i] : i \in DOMAIN s }

\* s.includes(ch)
Includes(s, ch) == \E i \in DOMAIN s : s[i] = ch

\* s.split('').reverse().join('')
Reverse(s) == [i \in 1 .. Len(s) |-> s[Len(s) + 1 - i]]

\* ch.toLowerCase() on one character: A-Z map to a-z, the rest is unchanged
LowerChar(ch) ==
    IF Includes(uppercase, ch)
    THEN lowercase[CHOOSE i \in DOMAIN uppercase : uppercase[i] = ch]
    ELSE ch

\* s.toLowerCase()
ToLowerCase(s) == [i \in 1 .. Len(s) |-> LowerChar(s[i])]

\* s.slice(-2)
SliceLastTwo(s) == IF Len(s) <= 2 THEN s ELSE SubSeq(s, Len(s) - 1, Len(s))

\* the value of an out-of-range index s[i]
Undefined == "undefined"

\* the text a value contributes to a string concatenation: a character is
\* itself, undefined is the nine characters "undefined"
Text(x) ==
    IF x = Undefined
    THEN <<"u", "n", "d", "e", "f", "i", "n", "e", "d">>
    ELSE <<x>>

\* Math.floor(Math.random() * n), with Math.random() = r / RandDenom
RandomIndex(r, n) == (r * n) \div RandDenom

\* the random number function of lines 652 and 666
MathRandom == "Math.random"

\* s[Math.floor(Math.random() * s.length)]
RandomChar(s, r) ==
    IF RandomIndex(r, Len(s)) + 1 \in DOMAIN s
    THEN s[RandomIndex(r, Len(s)) + 1]
    ELSE Undefined

(***************************************************************************)
(* generatePassword: charset construction.                                 *)
(***************************************************************************)
\* s.split('').filter(char => !similarChars.includes(char)).join('')
RemoveSimilar(s) == SelectSeq(s, LAMBDA ch : ~Includes(similarChars, ch))

\* options.customSymbols || '!@#$%^&*()_+-=[]{}|;:,.<>?'
Symbols(o) == IF o.customSymbols # <<>> THEN o.customSymbols ELSE defaultSymbols

\* charset before the similar characters are removed
RawCharset(o) ==
    Symbols(o)
      \o (IF o.includeLowercase THEN lowercase ELSE <<>>)
      \o (IF o.includeUppercase THEN uppercase ELSE <<>>)
      \o (IF o.includeNumbers THEN numbers ELSE <<>>)

\* a variant of Charset that skips the excludeSimilar filter
Charset_KeepsSimilar(o) == RawCharset(o)

Charset(o) ==
    IF o.excludeSimilar THEN RemoveSimilar(RawCharset(o)) ELSE RawCharset(o)

\* letterCharset before the similar characters are removed
RawLetterCharset(o) ==
    (IF o.includeLowercase THEN lowercase ELSE <<>>)
      \o (IF o.includeUppercase THEN uppercase ELSE <<>>)

LetterCharset(o) ==
    IF o.excludeSimilar
    THEN RemoveSimilar(RawLetterCharset(o))
    ELSE RawLetterCharset(o)

\* a variant of FirstChar that draws the first character from charset
FirstChar_FromCharset(o, r) ==
    IF o.beginWithLetter /\ (o.includeLowercase \/ o.includeUppercase)
    THEN IF LetterCharset(o) # <<>>
         THEN Text(RandomChar(Charset(o), r))
         ELSE <<>>
    ELSE <<>>

\* password after the forced first character: the empty string when the
\* step is skipped
FirstChar(o, r) ==
    IF o.beginWithLetter /\ (o.includeLowercase \/ o.includeUppercase)
    THEN IF LetterCharset(o) # <<>>
         THEN Text(RandomChar(LetterCharset(o), r))
         ELSE <<>>
    ELSE <<>>

\* a variant of FirstUsed that does not mark the first character as used
FirstUsed_Forgets(o, first) == {}

\* usedChars after the forced first character
FirstUsed(o, first) == IF o.noDuplicates THEN Range(first) ELSE {}

(***************************************************************************)
(* generatePassword: the fill loop.                                        *)
(***************************************************************************)
\* charset.split('').filter(char => !usedChars.has(char)).join('')
Unused(cs, used) == SelectSeq(cs, LAMBDA ch : ch \notin used)

AvailableChars(o, cs, used) == IF o.noDuplicates THEN Unused(cs, used) ELSE cs

\* password.slice(-2) + randomChar
LastThree(pw, randomChar) == SliceLastTwo(pw) \o Text(randomChar)

\* seq.split('').reverse().join('') of every entry seq of sequentialChars
reversedChars ==
    [k \in DOMAIN sequentialChars |-> Reverse(sequentialChars[k])]

\* a variant of IsSequential that finds every window sequential
IsSequential_Always(lastThree) == TRUE

IsSequential(lastThree) ==
    LET lowered == ToLowerCase(lastThree)
    IN  \E k \in DOMAIN sequentialChars :
            \/ lowered = sequentialChars[k]
            \/ lowered = reversedChars[k]

\* the candidate is dropped by the `continue`
Rejected(o, pw, randomChar) ==
    /\ o.removeSequential
    /\ Len(pw) >= 2
    /\ IsSequential(LastThree(pw, randomChar))

\* a variant of AddUsed that never marks the appended character
AddUsed_Never(o, used, randomChar) == used

\* usedChars after randomChar is appended
AddUsed(o, used, randomChar) ==
    IF o.noDuplicates THEN used \cup {randomChar} ELSE used

\* the while condition
LoopCondition(o, pw) == Len(pw) < o.length

\* the `break` of the noDuplicates branch: if (!availableChars) break
NoneAvailable(o, availableChars) == o.noDuplicates /\ availableChars = <<>>

NextAttempts(n) == IF n < MaxAttempts THEN n + 1 ELSE n

(***************************************************************************)
(* The state machine of one generatePassword call.                         *)
(***************************************************************************)
\* localStorage.getItem(key) of a key that is not stored, and of one that is
NoItem == <<>>

Item(value) == <<value>>

EmptyStorage == [passwordGeneratorSettings |-> NoItem, cookieConsent |-> NoItem]

\* useState<number | null>(null): null, and an index
Null == <<>>

Index(i) == <<i>>

\* the clipboard before the page has written to it, and after it wrote text
NoText == <<>>

Written(text) == <<text>>

\* no Generate click has completed
NoBatch == [stream |-> <<>>, calls |-> <<>>]

Options ==
    [ length           : Lengths,
      includeNumbers   : BOOLEAN,
      includeLowercase : BOOLEAN,
      includeUppercase : BOOLEAN,
      beginWithLetter  : BOOLEAN,
      excludeSimilar   : BOOLEAN,
      noDuplicates     : BOOLEAN,
      removeSequential : BOOLEAN,
      customSymbols    : SymbolInputs,
      saveSettings     : {FALSE} ]

\* options with a length at and beyond the ends of the range 10..100 the
\* length field announces; the pool is one customSymbols character, so that
\* every draw yields the same character
LongLengths == {10, 150}

LongOptions ==
    [ length           : LongLengths,
      includeNumbers   : {FALSE},
      includeLowercase : {FALSE},
      includeUppercase : {FALSE},
      beginWithLetter  : {FALSE},
      excludeSimilar   : BOOLEAN,
      noDuplicates     : BOOLEAN,
      removeSequential : BOOLEAN,
      customSymbols    : { <<"|">>, <<"#">> },
      saveSettings     : {FALSE} ]

\* options whose pool begins with a symbol and the digits, with a length
\* that leaves room for the symbol and a run of three digits
RunLengths == {4}

RunOptions ==
    [ length           : RunLengths,
      includeNumbers   : {TRUE},
      includeLowercase : {FALSE},
      includeUppercase : {FALSE},
      beginWithLetter  : {FALSE},
      excludeSimilar   : {FALSE},
      noDuplicates     : {TRUE},
      removeSequential : BOOLEAN,
      customSymbols    : { <<"|">> },
      saveSettings     : {FALSE} ]

Init ==
    /\ options \in Options \cup LongOptions \cup RunOptions
    /\ pc = "start"
    /\ charset = <<>>
    /\ password = <<>>
    /\ usedChars = {}
    /\ attempts = 0
    /\ randomCalls = {}
    /\ passwords = <<>>
    /\ batch = NoBatch
    /\ localStorage = EmptyStorage
    /\ showCookieBanner = TRUE
    /\ lengthOutline = ""
    /\ lengthFocused = FALSE
    /\ events = 0
    /\ copiedIndex = Null
    /\ copiedBy = 0
    /\ clipboard = NoText
    /\ pendingWrites = <<>>
    /\ timers = <<>>
    /\ consoleErrors = <<>>

\* charset construction and the forced first character
Begin ==
    /\ pc = "start"
    /\ charset' = Charset(options)
    /\ \E r \in Rand :
         /\ password' = FirstChar(options, r)
         /\ usedChars' = FirstUsed(options, FirstChar(options, r))
    /\ randomCalls' = IF password' # <<>>
                      THEN randomCalls \cup {MathRandom}
                      ELSE randomCalls
    /\ attempts' = 0
    /\ pc' = "loop"
    /\ UNCHANGED <<options, componentVars>>

\* the while condition is false: return password
Return ==
    /\ pc = "loop"
    /\ ~LoopCondition(options, password)
    /\ pc' = "done"
    /\ UNCHANGED <<options, callVars, randomCalls, componentVars>>

\* noDuplicates and no unused character: break, return password
Exhausted ==
    /\ pc = "loop"
    /\ LoopCondition(options, password)
    /\ NoneAvailable(options, AvailableChars(options, charset, usedChars))
    /\ pc' = "done"
    /\ UNCHANGED <<options, callVars, randomCalls, componentVars>>

\* a variant of Reject that marks the dropped candidate as used
Reject_MarksUsed ==
    /\ pc = "loop"
    /\ LoopCondition(options, password)
    /\ LET availableChars == AvailableChars(options, charset, usedChars)
       IN  /\ ~NoneAvailable(options, availableChars)
           /\ \E r \in Rand :
                /\ Rejected(options, password, RandomChar(availableChars, r))
                /\ usedChars' = usedChars \cup {RandomChar(availableChars, r)}
    /\ attempts' = NextAttempts(attempts)
    /\ randomCalls' = randomCalls \cup {MathRandom}
    /\ UNCHANGED <<options, pc, charset, password, componentVars>>

\* a candidate is drawn and dropped by the sequential check
Reject ==
    /\ pc = "loop"
    /\ LoopCondition(options, password)
    /\ LET availableChars == AvailableChars(options, charset, usedChars)
       IN  /\ ~NoneAvailable(options, availableChars)
           /\ \E r \in Rand :
                Rejected(options, password, RandomChar(availableChars, r))
    /\ attempts' = NextAttempts(attempts)
    /\ randomCalls' = randomCalls \cup {MathRandom}
    /\ UNCHANGED <<options, pc, charset, password, usedChars, componentVars>>

\* a candidate is drawn and appended
Accept ==
    /\ pc = "loop"
    /\ LoopCondition(options, password)
    /\ LET availableChars == AvailableChars(options, charset, usedChars)
       IN  /\ ~NoneAvailable(options, availableChars)
           /\ \E r \in Rand :
                LET randomChar == RandomChar(availableChars, r)
                IN  /\ ~Rejected(options, password, randomChar)
                    /\ password' = password \o Text(randomChar)
                    /\ usedChars' = AddUsed(options, usedChars, randomChar)
    /\ attempts' = NextAttempts(attempts)
    /\ randomCalls' = randomCalls \cup {MathRandom}
    /\ UNCHANGED <<options, pc, charset, componentVars>>

Next == Begin \/ Return \/ Exhausted \/ Reject \/ Accept

Spec == Init /\ [][Next]_vars

\* the steps that bring a call nearer to its return: the loop ends, or the
\* password grows (Reject changes nothing but the count of attempts)
Progress == Return \/ Exhausted \/ Accept

(***************************************************************************)
(* Notions of the specification the claims are stated with.                *)
(***************************************************************************)
\* clamp(n, 10, 100)
Clamp(n) == IF n < 10 THEN 10 ELSE IF n > 100 THEN 100 ELSE n

\* the characters of the enabled character classes
EnabledClassChars(o) ==
    (IF o.includeLowercase THEN Range(lowercase) ELSE {})
      \cup (IF o.includeUppercase THEN Range(uppercase) ELSE {})
      \cup (IF o.includeNumbers THEN Range(numbers) ELSE {})

\* the letters of the enabled letter classes that excludeSimilar keeps
EnabledLetters(o) ==
    ((IF o.includeLowercase THEN Range(lowercase) ELSE {})
       \cup (IF o.includeUppercase THEN Range(uppercase) ELSE {}))
      \ (IF o.excludeSimilar THEN Range(similarChars) ELSE {})

\* the effective pool: enabled classes and customSymbols, minus the similar
\* characters when excludeSimilar is set
EffectivePool(o) ==
    (Range(o.customSymbols) \cup EnabledClassChars(o))
      \ (IF o.excludeSimilar THEN Range(similarChars) ELSE {})

\* the 3-character windows of a string
Windows(s) == { SubSeq(s, i, i + 2) : i \in 1 .. (Len(s) - 2) }

\* the sequential-triplet table and its reversals, as a set
SequentialRuns ==
    { sequentialChars[k] : k \in DOMAIN sequentialChars }
      \cup { Reverse(sequentialChars[k]) : k \in DOMAIN sequentialChars }

\* the call has returned password
Returned == pc = "done"

(***************************************************************************)
(* C1..C10: the contract of one generatePassword call.                     *)
(***************************************************************************)

\* C1: every generatePassword call terminates and returns a string, for every
\* configuration and every sequence of random draws: the call has returned, or
\* it can still advance (the loop can end, or some draw is accepted), also when
\* the only unused characters would complete a sequential triplet.
C1_Terminates == Returned \/ ENABLED (Begin \/ Progress)

\* C2: the number of draw attempts of the fill loop never exceeds
\* effectiveLength * 50, where effectiveLength is clamp(length, 10, 100),
\* capped by the number of distinct characters of the pool the call built
\* when noDuplicates is set.
C2_AttemptsCapped ==
    attempts <=
      50 * (IF options.noDuplicates /\ Cardinality(Range(charset)) < Clamp(options.length)
            THEN Cardinality(Range(charset))
            ELSE Clamp(options.length))

\* C3: with removeSequential, no 3 consecutive characters of the returned
\* password, lower-cased, are an entry of the sequential-triplet table or the
\* reversal of one.
C3_NoSequentialRun ==
    (Returned /\ options.removeSequential)
      => \A w \in Windows(password) : ToLowerCase(w) \notin SequentialRuns

\* C4: with noDuplicates, no character occurs twice in the returned password,
\* the forced first letter included.
C4_NoDuplicates ==
    (Returned /\ options.noDuplicates)
      => Cardinality(Range(password)) = Len(password)

\* a no-duplicates password is returned that begins with a forced letter the
\* charset holds twice (in customSymbols and in lowercase), and has further
\* characters
C4_Witness ==
    /\ Returned
    /\ options.noDuplicates
    /\ options.beginWithLetter
    /\ options.includeLowercase
    /\ Len(password) >= 3
    /\ Includes(options.customSymbols, password[1])

\* C5: with excludeSimilar, the returned password holds none of the characters
\* 0 O 1 l I | and the grave accent.
C5_NoSimilarChars ==
    (Returned /\ options.excludeSimilar)
      => \A i \in DOMAIN password : ~Includes(similarChars, password[i])

\* a password is returned under excludeSimilar where customSymbols holds a
\* similar character, the classes hold some, and a first letter was forced
C5_Witness ==
    /\ Returned
    /\ options.excludeSimilar
    /\ options.customSymbols = <<"|">>
    /\ options.includeUppercase
    /\ options.includeNumbers
    /\ options.beginWithLetter
    /\ Len(password) >= 2

\* C6: with beginWithLetter and a letter class enabled, the first character of
\* the returned password is a letter of an enabled letter class that
\* excludeSimilar does not remove.
C6_BeginsWithLetter ==
    (/\ Returned
     /\ options.beginWithLetter
     /\ (options.includeLowercase \/ options.includeUppercase))
      => /\ Len(password) >= 1
         /\ password[1] \in EnabledLetters(options)

\* a password with a forced first letter is returned although the charset
\* begins with symbols
C6_Witness ==
    /\ Returned
    /\ options.beginWithLetter
    /\ options.includeUppercase
    /\ ~options.includeLowercase
    /\ options.excludeSimilar
    /\ ~Includes(uppercase, charset[1])
    /\ Len(password) >= 2

\* C7: with noDuplicates off and a non-empty pool, the returned password has
\* length exactly clamp(length, 10, 100).
C7_LengthIsClamped ==
    (Returned /\ ~options.noDuplicates /\ EffectivePool(options) # {})
      => Len(password) = Clamp(options.length)

\* C8: with noDuplicates and an effective pool of P distinct characters,
\* P < clamp(length, 10, 100), the returned password has length exactly P.
C8_LengthIsPoolSize ==
    (/\ Returned
     /\ options.noDuplicates
     /\ Cardinality(EffectivePool(options)) < Clamp(options.length))
      => Len(password) = Cardinality(EffectivePool(options))

\* C9: when the effective pool is empty, the empty string is returned.
C9_EmptyPoolEmptyPassword ==
    (Returned /\ EffectivePool(options) = {}) => password = <<>>

\* C10: when customSymbols is empty, every character of the returned password
\* is a character of an enabled class.
C10_NoSymbolsWhenEmpty ==
    (Returned /\ options.customSymbols = <<>>)
      => \A i \in DOMAIN password : password[i] \in EnabledClassChars(options)

(***************************************************************************)
(* C11..C13: the characters and the length of the returned password.       *)
(***************************************************************************)
\* the characters of a character class
ClassChars(class) ==
    CASE class = "includeNumbers"   -> Range(numbers)
      [] class = "includeLowercase" -> Range(lowercase)
      [] class = "includeUppercase" -> Range(uppercase)

\* C11: every character of the returned password is a member of the
\* effective pool: the enabled classes and customSymbols, minus the similar
\* characters when excludeSimilar is set.
C11_CharsFromEffectivePool ==
    Returned => \A i \in DOMAIN password : password[i] \in EffectivePool(options)

\* C12: when a character class is disabled and customSymbols holds no
\* character of it, the returned password holds no character of that class.
C12_DisabledClassAbsent ==
    \A class \in {"includeNumbers", "includeLowercase", "includeUppercase"} :
        (/\ Returned
         /\ ~options[class]
         /\ Range(options.customSymbols) \cap ClassChars(class) = {})
          => Range(password) \cap ClassChars(class) = {}

\* C13: in every state of a call, the fill loop and the return included, the
\* password is no longer than clamp(length, 10, 100).
C13_LengthAtMostClamp == Len(password) <= Clamp(options.length)

(***************************************************************************)
(* Numbers and JSON texts.                                                 *)
(*                                                                         *)
(* The JSON text of an object is the sequence of its members in the order  *)
(* of its keys, each member a pair <<key, text of the value>>.             *)
(***************************************************************************)
DecimalDigits == <<"0", "1", "2", "3", "4", "5", "6", "7", "8", "9">>

IsDigit(ch) == \E d \in DOMAIN DecimalDigits : DecimalDigits[d] = ch

DigitValue(ch) == (CHOOSE d \in DOMAIN DecimalDigits : DecimalDigits[d] = ch) - 1

\* the decimal text of a natural number
RECURSIVE NaturalText(_)
NaturalText(n) ==
    IF n < 10
    THEN <<DecimalDigits[n + 1]>>
    ELSE NaturalText(n \div 10) \o <<DecimalDigits[(n % 10) + 1]>>

\* the text of a number, as JSON.stringify and String write it
NumberText(n) == IF n < 0 THEN <<"-">> \o NaturalText(0 - n) ELSE NaturalText(n)

\* the longest prefix of s made of digits
RECURSIVE LeadingDigits(_)
LeadingDigits(s) ==
    IF s # <<>> /\ IsDigit(Head(s))
    THEN <<Head(s)>> \o LeadingDigits(Tail(s))
    ELSE <<>>

\* the number a sequence of digits denotes
RECURSIVE DigitsValue(_)
DigitsValue(ds) ==
    IF ds = <<>>
    THEN 0
    ELSE 10 * DigitsValue(SubSeq(ds, 1, Len(ds) - 1)) + DigitValue(ds[Len(ds)])

NaN == <<>>

\* parseInt(s): an optional sign and the leading digits; NaN, the empty
\* sequence here, when there is no digit; otherwise <<the number>>
ParseInt(s) ==
    LET negative == s # <<>> /\ Head(s) = "-"
        unsigned == IF s # <<>> /\ Head(s) \in {"-", "+"} THEN Tail(s) ELSE s
        digits   == LeadingDigits(unsigned)
    IN  IF digits = <<>>
        THEN NaN
        ELSE IF negative
             THEN <<0 - DigitsValue(digits)>>
             ELSE <<DigitsValue(digits)>>

\* parseInt(e.target.value) || 25: NaN and 0 are falsy
ParsedLength(s) ==
    IF ParseInt(s) = NaN \/ ParseInt(s) = <<0>> THEN 25 ELSE ParseInt(s)[1]

BooleanText(b) == IF b THEN <<"t", "r", "u", "e">> ELSE <<"f", "a", "l", "s", "e">>

\* the characters of a string inside a JSON string literal
RECURSIVE Escape(_)
Escape(s) ==
    IF s = <<>>
    THEN <<>>
    ELSE (IF Head(s) \in {"\"", "\\"} THEN <<"\\", Head(s)>> ELSE <<Head(s)>>)
           \o Escape(Tail(s))

StringText(s) == <<"\"">> \o Escape(s) \o <<"\"">>

\* JSON.stringify(options): the keys in the order of the object literal of
\* loadSettings, which { ...prev, key: value } keeps
Stringify(o) ==
    << <<"length",           NumberText(o.length)>>,
       <<"includeNumbers",   BooleanText(o.includeNumbers)>>,
       <<"includeLowercase", BooleanText(o.includeLowercase)>>,
       <<"includeUppercase", BooleanText(o.includeUppercase)>>,
       <<"beginWithLetter",  BooleanText(o.beginWithLetter)>>,
       <<"excludeSimilar",   BooleanText(o.excludeSimilar)>>,
       <<"noDuplicates",     BooleanText(o.noDuplicates)>>,
       <<"removeSequential", BooleanText(o.removeSequential)>>,
       <<"customSymbols",    StringText(o.customSymbols)>>,
       <<"saveSettings",     BooleanText(o.saveSettings)>> >>

\* the characters of a JSON string literal body, escapes resolved
RECURSIVE Unescape(_)
Unescape(s) ==
    IF s = <<>>
    THEN <<>>
    ELSE IF Head(s) = "\\" /\ Len(s) >= 2
         THEN <<s[2]>> \o Unescape(Tail(Tail(s)))
         ELSE <<Head(s)>> \o Unescape(Tail(s))

\* the body of a string literal is well formed: every quote is escaped and
\* every backslash starts an escape
RECURSIVE EscapedBody(_)
EscapedBody(s) ==
    IF s = <<>>
    THEN TRUE
    ELSE IF Head(s) = "\\"
         THEN Len(s) >= 2 /\ s[2] \in {"\"", "\\"} /\ EscapedBody(Tail(Tail(s)))
         ELSE Head(s) # "\"" /\ EscapedBody(Tail(s))

IsStringText(t) ==
    /\ Len(t) >= 2
    /\ Head(t) = "\""
    /\ t[Len(t)] = "\""
    /\ EscapedBody(SubSeq(t, 2, Len(t) - 1))

IsBooleanText(t) == t = BooleanText(TRUE) \/ t = BooleanText(FALSE)

IsNumberText(t) ==
    LET unsigned == IF t # <<>> /\ Head(t) = "-" THEN Tail(t) ELSE t
    IN  /\ unsigned # <<>>
        /\ LeadingDigits(unsigned) = unsigned
        /\ (Len(unsigned) > 1 => Head(unsigned) # "0")

\* the text is a JSON value JSON.parse accepts
IsValueText(t) == IsStringText(t) \/ IsBooleanText(t) \/ IsNumberText(t)

\* the value of the text of a JSON value
ParseValue(t) ==
    IF IsStringText(t)
    THEN Unescape(SubSeq(t, 2, Len(t) - 1))
    ELSE IF IsBooleanText(t)
         THEN t = BooleanText(TRUE)
         ELSE ParseInt(t)[1]

\* JSON.parse throws a SyntaxError on the text
ParseThrows(json) == \E m \in DOMAIN json : ~IsValueText(json[m][2])

\* the value JSON.parse gives the key (of the last member with that key)
Member(json, key) ==
    LET m == CHOOSE m \in DOMAIN json :
                 /\ json[m][1] = key
                 /\ \A n \in DOMAIN json : json[n][1] = key => n <= m
    IN  ParseValue(json[m][2])

\* JSON.parse(saved), for the text of an object with the keys of the options
Parse(json) ==
    [ length           |-> Member(json, "length"),
      includeNumbers   |-> Member(json, "includeNumbers"),
      includeLowercase |-> Member(json, "includeLowercase"),
      includeUppercase |-> Member(json, "includeUppercase"),
      beginWithLetter  |-> Member(json, "beginWithLetter"),
      excludeSimilar   |-> Member(json, "excludeSimilar"),
      noDuplicates     |-> Member(json, "noDuplicates"),
      removeSequential |-> Member(json, "removeSequential"),
      customSymbols    |-> Member(json, "customSymbols"),
      saveSettings     |-> Member(json, "saveSettings") ]

(***************************************************************************)
(* generatePassword as a function of the values Math.random() returns.     *)
(*                                                                         *)
(* The values are a periodic stream: call number k (from 0) of             *)
(* Math.random() returns Draw(stream, k) / RandDenom.                      *)
(***************************************************************************)
Draw(stream, k) == stream[(k % Len(stream)) + 1]

\* a variant of InitialUsedChars that keeps the set of the call before
InitialUsedChars_Kept(left) == left

\* usedChars at the start of a call, whatever set the call before it left:
\* new Set<string>()
InitialUsedChars(left) == {}

\* one iteration of the while loop on the locals of a call: password,
\* usedChars, the call number draws of the next Math.random(), the number
\* rejects of candidates dropped in a row, and at, which is "loop" while the
\* loop runs, "returned" after it, and "never" when it cannot end: after
\* Len(stream) candidates dropped in a row the stream is back where it was
\* with password and usedChars unchanged
Iteration(o, cs, stream, call) ==
    LET availableChars == AvailableChars(o, cs, call.usedChars)
        randomChar     == RandomChar(availableChars, Draw(stream, call.draws))
    IN  IF call.at # "loop"
        THEN call
        ELSE IF ~LoopCondition(o, call.password)
                  \/ NoneAvailable(o, availableChars)
        THEN [call EXCEPT !.at = "returned"]
        ELSE IF Rejected(o, call.password, randomChar)
        THEN [call EXCEPT !.draws = call.draws + 1,
                          !.rejects = call.rejects + 1,
                          !.at = IF call.rejects + 1 >= Len(stream)
                                 THEN "never"
                                 ELSE "loop"]
        ELSE [call EXCEPT !.password = call.password \o Text(randomChar),
                          !.usedChars = AddUsed(o, call.usedChars, randomChar),
                          !.draws = call.draws + 1,
                          !.rejects = 0]

\* n iterations of the while loop
RECURSIVE Iterations(_, _, _, _, _)
Iterations(o, cs, stream, call, n) ==
    IF n <= 1
    THEN Iteration(o, cs, stream, call)
    ELSE LET half == Iterations(o, cs, stream, call, n \div 2)
         IN  IF half.at = "loop"
             THEN Iterations(o, cs, stream, half, n - (n \div 2))
             ELSE half

\* the iterations after which a call has returned or is known never to:
\* every iteration but the last appends a character or drops a candidate,
\* and fewer than Len(stream) are dropped in a row
EnoughIterations(o, stream, pw) ==
    IF o.length > Len(pw)
    THEN (o.length - Len(pw) + 1) * Len(stream) + 1
    ELSE 1

\* the while loop, from password pw and usedChars used, before call number k
\* of Math.random()
FillLoop(o, cs, pw, used, stream, k) ==
    Iterations(o, cs, stream,
               [password |-> pw, usedChars |-> used, draws |-> k,
                rejects |-> 0, at |-> "loop"],
               EnoughIterations(o, stream, pw))

\* one call of generatePassword that finds Math.random() at call number k and
\* the usedChars of the call before it in left: the password, the final
\* usedChars, the call number it leaves Math.random() at, and whether it
\* returns
GeneratePassword(o, stream, k, left) ==
    LET first == FirstChar(o, Draw(stream, k))
    IN  FillLoop(o, Charset(o), first,
                 InitialUsedChars(left) \cup FirstUsed(o, first),
                 stream, IF first # <<>> THEN k + 1 ELSE k)

(***************************************************************************)
(* The component: state, settings effect, handlers.                        *)
(***************************************************************************)
MaxEvents == 3

\* the streams of Math.random() values a click on Generate may meet
RandomStreams == { <<0>>, <<1, 0>> }

\* the texts typed into the length input
LengthTexts == { <<"5">>, <<"1", "5", "0">>, <<>> }

\* the texts typed into the custom symbols input
SymbolTexts == { <<"#", "\"", "\\">> }

\* the checkboxes of the configuration, but Save Settings
CheckboxKeys ==
    { "includeNumbers", "includeLowercase", "includeUppercase",
      "beginWithLetter", "excludeSimilar", "noDuplicates", "removeSequential" }

defaultOptions ==
    [ length           |-> 25,
      includeNumbers   |-> TRUE,
      includeLowercase |-> TRUE,
      includeUppercase |-> TRUE,
      beginWithLetter  |-> TRUE,
      excludeSimilar   |-> TRUE,
      noDuplicates     |-> TRUE,
      removeSequential |-> TRUE,
      customSymbols    |-> defaultSymbols,
      saveSettings     |-> FALSE ]

\* a variant of loadSettings that never reads the stored settings
loadSettings_Defaults(storage) == defaultOptions

loadSettings(storage) ==
    LET saved == storage.passwordGeneratorSettings
    IN  IF saved # NoItem /\ ~ParseThrows(saved[1])
        THEN Parse(saved[1])
        ELSE defaultOptions

\* a variant of the settings effect that never removes the item
SettingsEffect_Keeps(o, storage) ==
    IF o.saveSettings
    THEN [storage EXCEPT !.passwordGeneratorSettings = Item(Stringify(o))]
    ELSE storage

\* localStorage after the effect of lines 612-618 has run on options o
SettingsEffect(o, storage) ==
    IF o.saveSettings
    THEN [storage EXCEPT !.passwordGeneratorSettings = Item(Stringify(o))]
    ELSE [storage EXCEPT !.passwordGeneratorSettings = NoItem]

\* options a session before this one may have saved
SavedOptions ==
    { [defaultOptions EXCEPT !.saveSettings = TRUE, !.length = 12,
                             !.noDuplicates = FALSE,
                             !.customSymbols = <<"\\", "\"", "a">>] }

\* a text JSON.parse throws on: {"length":25,}
BrokenJson == << <<"length", <<"2", "5", ",">> >> >>

\* the localStorage a session before this one may have left: nothing; saved
\* settings and an accepted banner; a broken settings text and a declined
\* banner
PreviousStorage ==
    { EmptyStorage }
      \cup { [passwordGeneratorSettings |-> Item(Stringify(o)),
              cookieConsent |-> Item("accepted")] : o \in SavedOptions }
      \cup { [passwordGeneratorSettings |-> Item(BrokenJson),
              cookieConsent |-> Item("declined")] }

\* a variant of Mount that shows the cookie banner on every mount
Mount_ShowsBanner(storage) ==
    [ options          |-> loadSettings(storage),
      passwords        |-> <<>>,
      showCookieBanner |-> TRUE,
      localStorage     |-> SettingsEffect(loadSettings(storage), storage) ]

\* the component mounts on storage: the useState initialisers of lines
\* 603-608 and the first run of the settings effect
Mount(storage) ==
    [ options          |-> loadSettings(storage),
      passwords        |-> <<>>,
      showCookieBanner |-> storage.cookieConsent = NoItem,
      localStorage     |-> SettingsEffect(loadSettings(storage), storage) ]

UIInit ==
    /\ \E storage \in PreviousStorage :
         /\ options = Mount(storage).options
         /\ passwords = Mount(storage).passwords
         /\ showCookieBanner = Mount(storage).showCookieBanner
         /\ localStorage = Mount(storage).localStorage
    /\ batch = NoBatch
    /\ lengthOutline = ""
    /\ lengthFocused = FALSE
    /\ events = 0
    /\ copiedIndex = Null
    /\ copiedBy = 0
    /\ clipboard = NoText
    /\ pendingWrites = <<>>
    /\ timers = <<>>
    /\ consoleErrors = <<>>
    /\ pc = "idle"
    /\ charset = <<>>
    /\ password = <<>>
    /\ usedChars = {}
    /\ attempts = 0
    /\ randomCalls = {}

\* a user event happens while the page responds
UserEvent ==
    /\ pc = "idle"
    /\ events < MaxEvents
    /\ events' = events + 1

\* setOptions(prev => o), and the settings effect the new options trigger
SetOptions(o) ==
    /\ options' = o
    /\ localStorage' = SettingsEffect(o, localStorage)

\* the page is loaded again: a new mount on the localStorage of this one
Reload ==
    /\ UserEvent
    /\ options' = Mount(localStorage).options
    /\ passwords' = Mount(localStorage).passwords
    /\ showCookieBanner' = Mount(localStorage).showCookieBanner
    /\ localStorage' = Mount(localStorage).localStorage
    /\ batch' = NoBatch
    /\ lengthOutline' = ""
    /\ lengthFocused' = FALSE
    /\ copiedIndex' = Null
    /\ copiedBy' = 0
    /\ pendingWrites' = <<>>
    /\ timers' = <<>>
    /\ consoleErrors' = <<>>
    /\ UNCHANGED <<pc, callVars, randomCalls, clipboard>>

\* onChange of the length input
ChangeLength ==
    /\ UserEvent
    /\ \E text \in LengthTexts :
         SetOptions([options EXCEPT !.length = ParsedLength(text)])
    /\ UNCHANGED <<pc, callVars, randomCalls, passwords, batch,
                   showCookieBanner, lengthOutline,
                   lengthFocused, copyVars>>

\* the length input gets the focus: its onFocus runs,
\* Object.assign(style, focusStyle)
FocusLength ==
    /\ UserEvent
    /\ lengthOutline' = "2px solid #2563eb"
    /\ lengthFocused' = TRUE
    /\ UNCHANGED <<options, pc, callVars, randomCalls, passwords, batch,
                   localStorage, showCookieBanner, copyVars>>

\* onBlur of the length input: e.currentTarget.style.outline = 'none'
OnBlur(outline) == "none"

\* the length input loses the focus: its onBlur runs
BlurLength ==
    /\ UserEvent
    /\ lengthOutline' = OnBlur(lengthOutline)
    /\ lengthFocused' = FALSE
    /\ UNCHANGED <<options, pc, callVars, randomCalls, passwords, batch,
                   localStorage, showCookieBanner, copyVars>>

\* onChange of the Save Settings checkbox
ChangeSaveSettings ==
    /\ UserEvent
    /\ SetOptions([options EXCEPT !.saveSettings = ~options.saveSettings])
    /\ UNCHANGED <<pc, callVars, randomCalls, passwords, batch,
                   showCookieBanner, lengthOutline,
                   lengthFocused, copyVars>>

\* onChange of the custom symbols input
ChangeCustomSymbols ==
    /\ UserEvent
    /\ \E text \in SymbolTexts :
         SetOptions([options EXCEPT !.customSymbols = text])
    /\ UNCHANGED <<pc, callVars, randomCalls, passwords, batch,
                   showCookieBanner, lengthOutline,
                   lengthFocused, copyVars>>

\* a variant of ChangeCheckbox that also clears the displayed list
ChangeCheckbox_Clears ==
    /\ UserEvent
    /\ \E key \in CheckboxKeys :
         SetOptions([options EXCEPT ![key] = ~options[key]])
    /\ passwords' = <<>>
    /\ UNCHANGED <<pc, callVars, randomCalls, batch,
                   showCookieBanner, lengthOutline,
                   lengthFocused, copyVars>>

\* onChange of one of the other checkboxes
ChangeCheckbox ==
    /\ UserEvent
    /\ \E key \in CheckboxKeys :
         SetOptions([options EXCEPT ![key] = ~options[key]])
    /\ UNCHANGED <<pc, callVars, randomCalls, passwords, batch,
                   showCookieBanner, lengthOutline,
                   lengthFocused, copyVars>>

\* onClick of Accept All in the cookie banner
AcceptCookies ==
    /\ UserEvent
    /\ showCookieBanner
    /\ localStorage' = [localStorage EXCEPT !.cookieConsent = Item("accepted")]
    /\ showCookieBanner' = FALSE
    /\ UNCHANGED <<options, pc, callVars, randomCalls, passwords, batch,
                   lengthOutline,
                   lengthFocused, copyVars>>

\* onClick of Decline in the cookie banner
DeclineCookies ==
    /\ UserEvent
    /\ showCookieBanner
    /\ localStorage' = [localStorage EXCEPT !.cookieConsent = Item("declined")]
    /\ showCookieBanner' = FALSE
    /\ UNCHANGED <<options, pc, callVars, randomCalls, passwords, batch,
                   lengthOutline,
                   lengthFocused, copyVars>>

\* Array.from({ length: 5 }, ...)
BatchSize == 5

\* the generatePassword calls of Array.from, in order, with the call number
\* each finds Math.random() at; a call that never returns is the last
RECURSIVE Calls(_, _, _, _, _)
Calls(o, stream, k, left, n) ==
    IF n = 0
    THEN <<>>
    ELSE LET call == GeneratePassword(o, stream, k, left)
         IN  <<[password |-> call.password, usedChars |-> call.usedChars,
                from |-> k, draws |-> call.draws, at |-> call.at]>>
               \o (IF call.at = "returned"
                   THEN Calls(o, stream, call.draws, call.usedChars, n - 1)
                   ELSE <<>>)

\* a variant of setPasswords that appends to the displayed list
SetPasswords_Appends(shown, newPasswords) == shown \o newPasswords

\* setPasswords(newPasswords)
SetPasswords(shown, newPasswords) == newPasswords

\* setTimeout(() => { ... passwordsSection.focus() ... }, 100) of
\* generateMultiplePasswords, and setTimeout(() => setCopiedIndex(null), 2000)
\* of the copy named copy
FocusTimer == [kind |-> "focus"]

ResetTimer(copy) == [kind |-> "reset", copy |-> copy]

\* onClick of Generate: generateMultiplePasswords, which ends by starting the
\* focus timer.  When one of the calls never returns, the handler stays in its
\* while loop and the page responds to no further event
Generate ==
    /\ UserEvent
    /\ \E stream \in RandomStreams :
       \E calls \in {Calls(options, stream, 0, {}, BatchSize)} :
         LET last == calls[Len(calls)]
         IN  /\ randomCalls' = IF last.draws > 0
                               THEN randomCalls \cup {MathRandom}
                               ELSE randomCalls
             /\ IF last.at = "returned"
                THEN /\ passwords' =
                          SetPasswords(passwords,
                                       [i \in DOMAIN calls |-> calls[i].password])
                     /\ batch' = [stream  |-> stream,
                                  calls   |-> calls,
                                  options |-> options]
                     /\ timers' = Append(timers, FocusTimer)
                     /\ UNCHANGED <<pc, callVars>>
                ELSE /\ pc' = "loop"
                     /\ charset' = Charset(options)
                     /\ password' = last.password
                     /\ usedChars' = last.usedChars
                     /\ attempts' = MaxAttempts
                     /\ UNCHANGED <<passwords, batch, timers>>
    /\ UNCHANGED <<options, localStorage, showCookieBanner, lengthOutline,
                   lengthFocused, copiedIndex, copiedBy, clipboard,
                   pendingWrites, consoleErrors>>

\* the label of the Copy button of index when the copiedIndex state is copied
Label(copied, index) == IF copied = Index(index) THEN "Copied!" ELSE "Copy"

\* the indexes of the Copy buttons a user clicks
CopyIndexes == {0, 1}

\* the page runs code: no handler is stuck in a loop
Responsive == pc = "idle"

\* onClick of the Copy button of index: copyToClipboard(password, index) up
\* to its await; the copy is named by the number of the click
CopyClick ==
    /\ UserEvent
    /\ \E index \in CopyIndexes :
         /\ index + 1 \in DOMAIN passwords
         /\ pendingWrites' = Append(pendingWrites,
                                    [copy  |-> events + 1,
                                     text  |-> passwords[index + 1],
                                     index |-> index])
    /\ UNCHANGED <<options, pc, callVars, randomCalls, passwords, batch,
                   localStorage, showCookieBanner, lengthOutline,
                   lengthFocused, copiedIndex,
                   copiedBy, clipboard, timers, consoleErrors>>

\* navigator.clipboard.writeText resolves: the text is on the clipboard, and
\* copyToClipboard continues after its await
WriteResolves ==
    /\ Responsive
    /\ pendingWrites # <<>>
    /\ clipboard' = Written(Head(pendingWrites).text)
    /\ copiedIndex' = Index(Head(pendingWrites).index)
    /\ copiedBy' = Head(pendingWrites).copy
    /\ timers' = Append(timers, ResetTimer(Head(pendingWrites).copy))
    /\ pendingWrites' = Tail(pendingWrites)
    /\ UNCHANGED <<options, pc, callVars, randomCalls, passwords, batch,
                   localStorage, showCookieBanner, lengthOutline,
                   lengthFocused, events,
                   consoleErrors>>

\* a variant of WriteRejects whose catch block also sets the indicator
WriteRejects_ShowsCopied ==
    /\ Responsive
    /\ pendingWrites # <<>>
    /\ consoleErrors' = Append(consoleErrors, "Failed to copy password:")
    /\ pendingWrites' = Tail(pendingWrites)
    /\ copiedIndex' = Index(Head(pendingWrites).index)
    /\ UNCHANGED <<options, pc, callVars, randomCalls, passwords, batch,
                   localStorage, showCookieBanner, lengthOutline,
                   lengthFocused, events,
                   copiedBy, clipboard, timers>>

\* navigator.clipboard.writeText rejects: the catch block
WriteRejects ==
    /\ Responsive
    /\ pendingWrites # <<>>
    /\ consoleErrors' = Append(consoleErrors, "Failed to copy password:")
    /\ pendingWrites' = Tail(pendingWrites)
    /\ UNCHANGED <<options, pc, callVars, randomCalls, passwords, batch,
                   localStorage, showCookieBanner, lengthOutline,
                   lengthFocused, events,
                   copiedIndex, copiedBy, clipboard, timers>>

\* timers without the timer at position i
Without(queue, i) ==
    [j \in 1 .. Len(queue) - 1 |-> IF j < i THEN queue[j] ELSE queue[j + 1]]

\* the timer at position i of the queue is due before every other timer: no
\* older timer of its kind is pending, and a reset timer, with its 2000 ms, is
\* due after every timer started before it
Due(queue, i) ==
    \A j \in 1 .. i - 1 :
        queue[i].kind = "focus" /\ queue[j].kind = "reset"

\* a focus timer fires after its 100 ms: the heading of the passwords section,
\* which is rendered while passwords are displayed, gets the focus; the
\* length input, when it had the focus, is blurred and its onBlur runs
FocusTimerFires ==
    /\ Responsive
    /\ \E i \in DOMAIN timers :
         /\ timers[i].kind = "focus"
         /\ Due(timers, i)
         /\ timers' = Without(timers, i)
    /\ lengthOutline' = IF passwords # <<>> /\ lengthFocused
                        THEN OnBlur(lengthOutline)
                        ELSE lengthOutline
    /\ lengthFocused' = IF passwords # <<>> THEN FALSE ELSE lengthFocused
    /\ UNCHANGED <<options, pc, callVars, randomCalls, passwords, batch,
                   localStorage, showCookieBanner, events, copiedIndex,
                   copiedBy, clipboard, pendingWrites, consoleErrors>>

\* the reset timer of a copy fires after its 2000 ms: setCopiedIndex(null)
TimerFires ==
    /\ Responsive
    /\ timers # <<>>
    /\ Head(timers).kind = "reset"
    /\ copiedIndex' = Null
    /\ timers' = Tail(timers)
    /\ UNCHANGED <<options, pc, callVars, randomCalls, passwords, batch,
                   localStorage, showCookieBanner, lengthOutline,
                   lengthFocused, events,
                   copiedBy, clipboard, pendingWrites, consoleErrors>>

UINext ==
    \/ Reload
    \/ ChangeLength
    \/ FocusLength
    \/ BlurLength
    \/ ChangeSaveSettings
    \/ ChangeCustomSymbols
    \/ ChangeCheckbox
    \/ AcceptCookies
    \/ DeclineCookies
    \/ Generate
    \/ CopyClick
    \/ WriteResolves
    \/ WriteRejects
    \/ FocusTimerFires
    \/ TimerFires

UISpec == UIInit /\ [][UINext]_vars

(***************************************************************************)
(* C14..C20: batches, the length input, stored settings, consent and the   *)
(* random source.                                                          *)
(***************************************************************************)
\* a click on Generate has completed since the mount
Generated == batch.stream # <<>>

\* C14: after every completed click on Generate the displayed list holds
\* exactly 5 passwords, the i-th the result of the i-th generatePassword call
\* of that click, a call that begins where the call before it left
\* Math.random(); before a click the list is empty.
C14_GenerateFive ==
    IF Generated
    THEN /\ Len(passwords) = 5
         /\ Len(batch.calls) = 5
         /\ \A i \in 1 .. 5 :
              /\ passwords[i] = batch.calls[i].password
              /\ batch.calls[i].at = "returned"
              /\ batch.calls[i].from = IF i = 1 THEN 0 ELSE batch.calls[i - 1].draws
    ELSE passwords = <<>>

\* the list of a click on Generate made after the options were changed, with
\* passwords that differ
C14_Witness ==
    /\ Generated
    /\ batch.options.length = 5
    /\ ~batch.options.noDuplicates
    /\ Len(passwords) = 5
    /\ passwords[1] # passwords[2]

\* C15: two calls of one batch that meet the same sequence of random draws
\* return the same password, whatever the calls before them used.
C15_NoStateBetweenCalls ==
    Generated =>
        \A i, j \in DOMAIN batch.calls :
            (batch.calls[i].from % Len(batch.stream)
               = batch.calls[j].from % Len(batch.stream))
              => batch.calls[i].password = batch.calls[j].password

\* with noDuplicates, the second call of a batch meets the draws of the first
\* and returns its password again, every character of it used before
C15_Witness ==
    /\ Generated
    /\ batch.options.noDuplicates
    /\ batch.calls[1].from % Len(batch.stream)
         = batch.calls[2].from % Len(batch.stream)
    /\ batch.calls[1].password = batch.calls[2].password
    /\ batch.calls[2].usedChars = Range(batch.calls[1].password)
    /\ Len(batch.calls[1].password) >= 10

\* C16: when the length input loses focus its value becomes
\* clamp(value, 10, 100), and the options of every completed click on
\* Generate have a length within 10..100.
C16_BlurClampsLength ==
    [][/\ BlurLength => options'.length = Clamp(options.length)
       /\ batch'.stream # <<>> => batch'.options.length \in 10 .. 100]_vars

\* C17: the item passwordGeneratorSettings is the JSON text of the current
\* options when saveSettings is true, and is absent when it is false.
C17_StorageFollowsSaveSettings ==
    localStorage.passwordGeneratorSettings
      = IF options.saveSettings THEN Item(Stringify(options)) ELSE NoItem

\* settings are saved, and changed while saved: the stored text has the
\* typed length and the typed symbols
C17_Witness ==
    /\ options.saveSettings
    /\ options.length = 150
    /\ options.customSymbols \in SymbolTexts
    /\ localStorage.passwordGeneratorSettings # NoItem
    /\ Member(localStorage.passwordGeneratorSettings[1], "length") = 150
    /\ events >= 2

\* C18: a mount on the settings a session saved gives the options that
\* session saved: the first mount, the options of SavedOptions, and a reload
\* with saveSettings on, the options before it.
C18_MountRestoresSettings ==
    /\ (localStorage.passwordGeneratorSettings # NoItem => options \in SavedOptions)
    /\ [][(Reload /\ options.saveSettings) => options' = options]_vars

\* the component has mounted on the settings of a session before: a length
\* and symbols no input of this session gives
C18_Witness ==
    /\ options.saveSettings
    /\ options.length = 12
    /\ options.customSymbols = <<"\\", "\"", "a">>
    /\ ~options.noDuplicates
    /\ ~showCookieBanner

\* C19: while the cookie-consent choice is 'declined', no step stores a
\* settings text under passwordGeneratorSettings.
C19_NoWriteWhenDeclined ==
    [][localStorage.cookieConsent = Item("declined")
         => \/ localStorage'.passwordGeneratorSettings = NoItem
            \/ localStorage'.passwordGeneratorSettings
                 = localStorage.passwordGeneratorSettings]_vars

\* C20: every random character selection uses crypto.getRandomValues.
C20_CryptoRandomOnly == randomCalls \subseteq {"crypto.getRandomValues"}

(***************************************************************************)
(* C21, C24..C26, C30: the pool, the sequential check and usedChars.       *)
(***************************************************************************)
\* the first occurrences of the characters of s, in the order of s
RECURSIVE FirstOccurrences(_)
FirstOccurrences(s) ==
    IF s = <<>>
    THEN <<>>
    ELSE LET front == FirstOccurrences(SubSeq(s, 1, Len(s) - 1))
         IN  IF Includes(front, s[Len(s)]) THEN front ELSE front \o <<s[Len(s)]>>

\* the pool of the specification: customSymbols, lowercase, uppercase,
\* digits, without the similar characters when excludeSimilar is set, every
\* character once
Pool(o) ==
    LET all == o.customSymbols
                 \o (IF o.includeLowercase THEN lowercase ELSE <<>>)
                 \o (IF o.includeUppercase THEN uppercase ELSE <<>>)
                 \o (IF o.includeNumbers THEN numbers ELSE <<>>)
    IN  FirstOccurrences(IF o.excludeSimilar THEN RemoveSimilar(all) ELSE all)

\* the call is past the construction of charset
Built == pc \in {"loop", "done"}

\* C21: the charset the draws use is the pool in the order customSymbols,
\* lowercase, uppercase, digits, every character once, at its first
\* occurrence.
C21_PoolFirstOccurrences == Built => charset = Pool(options)

\* the windows of length 3 over the letters and over the digits, and their
\* reversals
AllRuns ==
    (Windows(lowercase) \cup Windows(numbers))
      \cup { Reverse(w) : w \in Windows(lowercase) \cup Windows(numbers) }

\* the characters the next draw of the loop can yield
Candidates == Range(AvailableChars(options, charset, usedChars))

\* the loop is about to draw a candidate
Drawing ==
    /\ pc = "loop"
    /\ LoopCondition(options, password)
    /\ ~NoneAvailable(options, AvailableChars(options, charset, usedChars))

\* C24: a step of the loop that drops its candidate leaves password,
\* usedChars and charset as they were, so the candidates of the next draw are
\* those of this one; it happens only with removeSequential, a password of
\* at least 2 characters and a candidate that forms a run with the last two.
C24_RejectionChangesNothing ==
    [][(pc = "loop" /\ pc' = "loop" /\ password' = password)
         => /\ usedChars' = usedChars
            /\ charset' = charset
            /\ options.removeSequential
            /\ Len(password) >= 2
            /\ \E ch \in Candidates :
                 ToLowerCase(SliceLastTwo(password) \o <<ch>>) \in SequentialRuns]_vars

\* a candidate has been dropped: with noDuplicates every accepted draw adds
\* one character, and there were more draws than characters
C24_Witness ==
    /\ pc = "loop"
    /\ options.noDuplicates
    /\ options.removeSequential
    /\ Len(password) >= 2
    /\ attempts > Len(password)

\* C25: the table of sequential triplets is the set of all windows of
\* length 3 over the letters and over the digits, and a candidate is dropped
\* exactly when the lower-cased window of the last two characters and the
\* candidate is such a window or the reversal of one.
C25_RejectsExactlyRuns ==
    (Drawing /\ options.removeSequential /\ Len(password) >= 2)
      => \A ch \in Candidates :
             Rejected(options, password, ch)
               <=> ToLowerCase(LastThree(password, ch)) \in AllRuns

\* C26: with noDuplicates off and a non-empty charset, whenever the loop is
\* about to draw, some character of the charset passes the sequential check.
C26_SomeCandidatePasses ==
    (Drawing /\ ~options.noDuplicates /\ charset # <<>>)
      => \E ch \in Range(charset) : ~Rejected(options, password, ch)

\* the loop is about to draw with noDuplicates off, the sequential check is
\* on and drops one of the candidates
C26_Witness ==
    /\ Drawing
    /\ ~options.noDuplicates
    /\ charset # <<>>
    /\ \E ch \in Range(charset) : Rejected(options, password, ch)

\* C30: at every point of a call usedChars is the set of the characters of
\* password when noDuplicates is true, and empty when it is false.
C30_UsedCharsArePasswordChars ==
    usedChars = IF options.noDuplicates THEN Range(password) ELSE {}

\* with noDuplicates, a forced first letter and further characters have been
\* appended
C30_Witness ==
    /\ Built
    /\ options.noDuplicates
    /\ options.beginWithLetter
    /\ options.includeUppercase
    /\ Len(password) >= 3
    /\ attempts >= 2

\* the oldest pending clipboard write settles in this step
Settles ==
    /\ pendingWrites # <<>>
    /\ pendingWrites' = Tail(pendingWrites)
    /\ events' = events

\* C22: when the clipboard write of a copy of password i settles, either it
\* succeeded and the button of index i shows 'Copied!', or it failed, the
\* message 'Failed to copy password:' is logged and every button keeps its
\* label
C22_CopyOutcome ==
    [][Settles =>
         \/ /\ clipboard' = Written(Head(pendingWrites).text)
            /\ Label(copiedIndex', Head(pendingWrites).index) = "Copied!"
            /\ consoleErrors' = consoleErrors
         \/ /\ consoleErrors'
                 = Append(consoleErrors, "Failed to copy password:")
            /\ \A index \in 0 .. BatchSize - 1 :
                 Label(copiedIndex', index) = Label(copiedIndex, index)
            /\ clipboard' = clipboard]_vars

\* a failed copy has left the 'Copied!' of an earlier successful copy of the
\* second password in place
C22_Witness ==
    /\ consoleErrors = <<"Failed to copy password:">>
    /\ pendingWrites = <<>>
    /\ Label(copiedIndex, 1) = "Copied!"
    /\ clipboard = Written(passwords[2])

\* C23: the cookie banner is visible exactly when no cookieConsent is stored;
\* Accept and Decline store 'accepted' and 'declined' and hide the banner;
\* a stored choice stays stored and the banner stays hidden, across reloads
C23_BannerIffNoConsent ==
    /\ [](showCookieBanner <=> localStorage.cookieConsent = NoItem)
    /\ [][/\ (AcceptCookies =>
                (localStorage'.cookieConsent = Item("accepted")
                   /\ ~showCookieBanner'))
           /\ (DeclineCookies =>
                (localStorage'.cookieConsent = Item("declined")
                   /\ ~showCookieBanner'))
           /\ (localStorage.cookieConsent # NoItem =>
                (localStorage'.cookieConsent = localStorage.cookieConsent
                   /\ ~showCookieBanner'))]_vars

\* Accept was clicked on a first visit, and events followed it
C23_Witness ==
    /\ localStorage.cookieConsent = Item("accepted")
    /\ ~showCookieBanner
    /\ options.customSymbols = defaultSymbols
    /\ events = MaxEvents

\* C27: whenever the Copy button of index i shows 'Copied!', the text last
\* written to the clipboard is the password displayed at index i
C27_CopiedIsDisplayed ==
    \A i \in DOMAIN passwords :
        Label(copiedIndex, i - 1) = "Copied!"
          => clipboard = Written(passwords[i])

\* C28: the 'Copied!' indicator is cleared only by the reset timer of the copy
\* that set it: no timer of an earlier copy clears it
C28_OwnTimerClears ==
    [][(copiedIndex # Null /\ copiedIndex' = Null /\ events' = events)
         => (timers # <<>> /\ Head(timers) = ResetTimer(copiedBy))]_vars

\* C29: a step that changes the options of the mounted component leaves the
\* displayed list unchanged; the list changes only in a Generate click, which
\* generates with the options in force and leaves them unchanged
C29_ListChangesOnlyOnGenerate ==
    [][~Reload =>
         /\ (options' # options => passwords' = passwords)
         /\ (passwords' # passwords =>
               /\ batch'.stream # <<>>
               /\ batch'.options = options
               /\ Len(passwords') = BatchSize)]_vars

\* passwords are displayed, and the options are no longer those they were
\* generated with
C29_Witness ==
    /\ Generated
    /\ Len(passwords) = BatchSize
    /\ batch.options # options
    /\ batch.options.length # options.length
    /\ batch.options.includeNumbers # options.includeNumbers

====
